---- MODULE Spec2Model ----
(***************************************************************************)
(* Model of clarifai.client.search.Search and clarifai.schema.search.      *)
(*                                                                         *)
(* Python values are modelled as tagged pairs <<type, payload>>:           *)
(*   str   : payload is the sequence of its characters                     *)
(*   bytes : payload is the sequence of its bytes                          *)
(*   int   : payload is the integer                                        *)
(*   float : payload is the integer the float is equal to (-29.0 is -29)   *)
(*   list  : payload is the sequence of its elements                       *)
(*   dict  : payload is the sequence of its <<key, value>> items, in       *)
(*           insertion order, keys distinct                                *)
(***************************************************************************)
EXTENDS Integers, Sequences, FiniteSets, TLC

VARIABLES
  inputs,    \* the <<ranks, filters>> pairs the caller may pass to query()
  self,      \* the Search session: user_app_id, default_page_size, metric_distance, data_proto
  calls,     \* one record per query() call made on the session, with its page sequence
  inflight   \* index of the call whose page request awaits its response, 0 if none

vars == <<inputs, self, calls, inflight>>

----------------------------------------------------------------------------
(* Python values *)

PyStr(s) == <<"str", s>>
PyBytes(b) == <<"bytes", b>>
PyInt(n) == <<"int", n>>
PyFloat(x) == <<"float", x>>
PyList(l) == <<"list", l>>
PyDict(d) == <<"dict", d>>

\* isinstance(v, t) for the types above (no bool values are drawn)
IsInstance(v, t) == v[1] = t

\* len(v) of a str, bytes, list or dict
PyLen(v) == Len(v[2])

\* the keys of a dict, the value stored under a key
Keys(d) == {d[2][i][1] : i \in 1..Len(d[2])}
Get(d, k) == LET i == CHOOSE j \in 1..Len(d[2]) : d[2][j][1] = k IN d[2][i][2]

----------------------------------------------------------------------------
(* clarifai/schema/search.py *)

Digits == {"0", "1", "2", "3", "4", "5", "6", "7", "8", "9"}
Upper == {"A", "B", "C", "D", "E", "F", "G", "H", "I", "J", "K", "L", "M",
          "N", "O", "P", "Q", "R", "S", "T", "U", "V", "W", "X", "Y", "Z"}
Lower == {"a", "b", "c", "d", "e", "f", "g", "h", "i", "j", "k", "l", "m",
          "n", "o", "p", "q", "r", "s", "t", "u", "v", "w", "x", "y", "z"}
\* the character class [0-9A-Za-z]
Alnum == Digits \cup Upper \cup Lower
\* the character class [-_]
Separator == {"-", "_"}

\* The automaton of [0-9A-Za-z]+([-_][0-9A-Za-z]+)* : "start" before the first
\* character, "word" inside an alphanumeric segment (accepting), "sep" right
\* after a separator, "dead" once the text cannot match.
NameStep(q, c) ==
  CASE q = "start" -> IF c \in Alnum THEN "word" ELSE "dead"
    [] q = "word" -> IF c \in Alnum THEN "word"
                     ELSE IF c \in Separator THEN "sep" ELSE "dead"
    [] q = "sep" -> IF c \in Alnum THEN "word" ELSE "dead"
    [] OTHER -> "dead"

RECURSIVE NameRun(_, _)
NameRun(q, s) == IF s = <<>> THEN q ELSE NameRun(NameStep(q, Head(s)), Tail(s))

\* The positions at which $ matches in s (re without MULTILINE): the end of
\* the string, and just before a newline that is the last character.
DollarEnds(s) ==
  {Len(s)} \cup (IF Len(s) > 0 /\ s[Len(s)] = "\n" THEN {Len(s) - 1} ELSE {})

\* Regex(r'^[0-9A-Za-z]+([-_][0-9A-Za-z]+)*$'): re.search on the characters s
NameRegex(s) == \E e \in DollarEnds(s) : NameRun("start", SubSeq(s, 1, e)) = "word"

\* Regex(r'^https?://'): re.search on the characters s
UrlRegex(s) ==
  \/ Len(s) >= 7 /\ SubSeq(s, 1, 7) = <<"h", "t", "t", "p", ":", "/", "/">>
  \/ Len(s) >= 8 /\ SubSeq(s, 1, 8) = <<"h", "t", "t", "p", "s", ":", "/", "/">>

\* A value rule that takes any integer.
ConceptValueRule_any_int(v) == IsInstance(v, "int")

\* And(int, lambda x: x in [0, 1])
ConceptValueRule(v) == IsInstance(v, "int") /\ v[2] \in {0, 1}
\* And(str, len)
NonEmptyStr(v) == IsInstance(v, "str") /\ PyLen(v) > 0
\* And(str, len, Regex(...))
ConceptNameRule(v) == IsInstance(v, "str") /\ PyLen(v) > 0 /\ NameRegex(v[2])

ConceptKeys == {"value", "id", "language", "name"}

ConceptFieldRule(k, v) ==
  CASE k = "value" -> ConceptValueRule(v)
    [] k = "id" -> NonEmptyStr(v)
    [] k = "language" -> NonEmptyStr(v)
    [] k = "name" -> ConceptNameRule(v)
    [] OTHER -> FALSE

\* concept_schema.is_valid(c): a dict, every key one of the optional keys,
\* every value passing its key's rule
concept_schema(c) ==
  /\ IsInstance(c, "dict")
  /\ \A i \in 1..Len(c[2]) :
       c[2][i][1] \in ConceptKeys /\ ConceptFieldRule(c[2][i][1], c[2][i][2])

GeoKeys == {"longitude", "latitude", "geo_limit"}

\* A longitude rule that takes any number, as a numeric-tower check would.
GeoFieldRule_int_as_float(k, v) ==
  CASE k = "longitude" -> IsInstance(v, "float") \/ IsInstance(v, "int")
    [] k = "latitude" -> IsInstance(v, "float")
    [] k = "geo_limit" -> IsInstance(v, "int")
    [] OTHER -> FALSE

GeoFieldRule(k, v) ==
  CASE k = "longitude" -> IsInstance(v, "float")
    [] k = "latitude" -> IsInstance(v, "float")
    [] k = "geo_limit" -> IsInstance(v, "int")
    [] OTHER -> FALSE

\* {'longitude': float, 'latitude': float, 'geo_limit': int}: a dict with no
\* key besides the three, each of the three present, each of its type
geo_point_schema(g) ==
  /\ IsInstance(g, "dict")
  /\ \A i \in 1..Len(g[2]) :
       g[2][i][1] \in GeoKeys /\ GeoFieldRule(g[2][i][1], g[2][i][2])
  /\ GeoKeys \subseteq Keys(g)

\* A concepts rule without the len(item) > 0 test.
concepts_rule_allow_empty_concept(v) ==
  /\ IsInstance(v, "list")
  /\ \A i \in 1..Len(v[2]) : concept_schema(v[2][i])

\* And(list, lambda x: all(concept_schema.is_valid(item) and len(item) > 0 for item in x))
concepts_rule(v) ==
  /\ IsInstance(v, "list")
  /\ \A i \in 1..Len(v[2]) : concept_schema(v[2][i]) /\ PyLen(v[2][i]) > 0

ItemKeys == {"image_url", "text_raw", "metadata", "image_bytes", "geo_point", "concepts"}

ItemFieldRule(k, v) ==
  CASE k = "image_url" -> IsInstance(v, "str") /\ UrlRegex(v[2])
    [] k = "text_raw" -> NonEmptyStr(v)
    [] k = "metadata" -> IsInstance(v, "dict")
    [] k = "image_bytes" -> IsInstance(v, "bytes")
    [] k = "geo_point" -> geo_point_schema(v)
    [] k = "concepts" -> concepts_rule(v)
    [] OTHER -> FALSE

\* An item schema that skips the keys it does not know (ignore_extra_keys).
rank_filter_item_schema_ignore_extra_keys(item) ==
  /\ IsInstance(item, "dict")
  /\ \A i \in 1..Len(item[2]) :
       item[2][i][1] \in ItemKeys => ItemFieldRule(item[2][i][1], item[2][i][2])

\* rank_filter_item_schema: a dict, every key one of the optional keys, every
\* value passing its key's rule
rank_filter_item_schema(item) ==
  /\ IsInstance(item, "dict")
  /\ \A i \in 1..Len(item[2]) :
       item[2][i][1] \in ItemKeys /\ ItemFieldRule(item[2][i][1], item[2][i][2])

\* Schema([rank_filter_item_schema]).validate(x) raises no SchemaError
get_schema(x) ==
  /\ IsInstance(x, "list")
  /\ \A i \in 1..Len(x[2]) : rank_filter_item_schema(x[2][i])

----------------------------------------------------------------------------
(* clarifai/client/search.py: building the annotations *)

\* resources_pb2.Data(): image, text, metadata and geo hold zero or one
\* message, concepts is the repeated field
EmptyData == [image |-> <<>>, concepts |-> <<>>, text |-> <<>>, metadata |-> <<>>, geo |-> <<>>]

\* self.inputs.get_input_from_bytes("", image_bytes=value).data.image
get_input_from_bytes_image(value) == <<"base64", value[2]>>
\* self.inputs.get_input_from_url("", image_url=value).data.image
get_input_from_url_image(value) == <<"url", value[2]>>
\* self.inputs.get_input_from_bytes("", text_bytes=bytes(value, 'utf-8')).data.text
\* (the characters drawn are ASCII: each is encoded as the one byte it is)
get_input_from_bytes_text(value) == <<"raw", value[2]>>

\* resources_pb2.Concept(**concept): scalar fields, unset ones at their default
ConceptProto(concept) ==
  [id |-> IF "id" \in Keys(concept) THEN Get(concept, "id")[2] ELSE <<>>,
   name |-> IF "name" \in Keys(concept) THEN Get(concept, "name")[2] ELSE <<>>,
   language |-> IF "language" \in Keys(concept) THEN Get(concept, "language")[2] ELSE <<>>,
   value |-> IF "value" \in Keys(concept) THEN Get(concept, "value")[2] ELSE 0]

get_geo_point_proto(longitude, latitude, geo_limit) ==
  [geo_point |-> [longitude |-> longitude[2], latitude |-> latitude[2]],
   geo_limit |-> [type |-> "withinKilometers", value |-> geo_limit[2]]]

\* A loop body without the metadata branch: the key falls through to the raise.
KwargStep_without_metadata(st, key, value) ==
  IF st.raised THEN st
  ELSE CASE key = "image_bytes" ->
              [st EXCEPT !.data.image = <<get_input_from_bytes_image(value)>>]
         [] key = "image_url" ->
              [st EXCEPT !.data.image = <<get_input_from_url_image(value)>>]
         [] key = "concepts" ->
              [st EXCEPT !.data.concepts =
                 @ \o [i \in 1..Len(value[2]) |-> ConceptProto(value[2][i])]]
         [] key = "text_raw" ->
              [st EXCEPT !.data.text = <<get_input_from_bytes_text(value)>>]
         [] key = "geo_point" ->
              [st EXCEPT !.data.geo =
                 <<get_geo_point_proto(Get(value, "longitude"), Get(value, "latitude"),
                                       Get(value, "geo_limit"))>>]
         [] OTHER -> [st EXCEPT !.raised = TRUE]

\* One iteration of the loop over kwargs.items(): st.data is self.data_proto,
\* st.raised says that the unsupported-key UserError was raised.
KwargStep(st, key, value) ==
  IF st.raised THEN st
  ELSE CASE key = "image_bytes" ->
              [st EXCEPT !.data.image = <<get_input_from_bytes_image(value)>>]
         [] key = "image_url" ->
              [st EXCEPT !.data.image = <<get_input_from_url_image(value)>>]
         [] key = "concepts" ->
              [st EXCEPT !.data.concepts =
                 @ \o [i \in 1..Len(value[2]) |-> ConceptProto(value[2][i])]]
         [] key = "text_raw" ->
              [st EXCEPT !.data.text = <<get_input_from_bytes_text(value)>>]
         [] key = "metadata" ->
              [st EXCEPT !.data.metadata = <<value[2]>>]
         [] key = "geo_point" ->
              [st EXCEPT !.data.geo =
                 <<get_geo_point_proto(Get(value, "longitude"), Get(value, "latitude"),
                                       Get(value, "geo_limit"))>>]
         [] OTHER -> [st EXCEPT !.raised = TRUE]

RECURSIVE KwargsLoop(_, _)
KwargsLoop(items, st) ==
  IF items = <<>> THEN st
  ELSE KwargsLoop(Tail(items), KwargStep(st, Head(items)[1], Head(items)[2]))

\* A call that never clears the scratch buffer: the loop goes on from what the
\* session's buffer holds.
get_annot_proto_no_reset(kwargs, data_proto) ==
  IF kwargs[2] = <<>>
  THEN [annot |-> [data |-> <<>>], data_proto |-> data_proto, raised |-> FALSE]
  ELSE LET st == KwargsLoop(kwargs[2], [data |-> data_proto, raised |-> FALSE])
       IN [annot |-> [data |-> <<st.data>>], data_proto |-> st.data, raised |-> st.raised]

\* self._get_annot_proto(**kwargs) with self.data_proto = data_proto: the
\* Annotation returned (its data field unset, or set to a copy of the buffer),
\* the buffer the session is left with, and whether UserError was raised.
get_annot_proto(kwargs, data_proto) ==
  IF kwargs[2] = <<>>
  THEN [annot |-> [data |-> <<>>], data_proto |-> data_proto, raised |-> FALSE]
  ELSE LET st == KwargsLoop(kwargs[2], [data |-> EmptyData, raised |-> FALSE])
       IN [annot |-> [data |-> <<st.data>>], data_proto |-> st.data, raised |-> st.raised]

\* for d in dicts: protos.append(self._get_annot_proto(**d)), from the state
\* acc = [protos, data_proto, raised]
RECURSIVE AppendAnnots(_, _)
AppendAnnots(dicts, acc) ==
  IF dicts = <<>> \/ acc.raised THEN acc
  ELSE LET r == get_annot_proto(Head(dicts), acc.data_proto)
       IN AppendAnnots(Tail(dicts),
            [protos |-> IF r.raised THEN acc.protos ELSE Append(acc.protos, r.annot),
             data_proto |-> r.data_proto,
             raised |-> r.raised])

----------------------------------------------------------------------------
(* clarifai/client/search.py: query() and the page sequence *)

\* status_code_pb2.SUCCESS, and a status code that is not SUCCESS
SUCCESS == 10000
FAILURE == 10020
StatusCodes == {SUCCESS, FAILURE}

\* the most requests one page sequence is followed for
MaxPages == 3
\* the most query() calls made on the session
MaxQueries == 1
\* the most times the caller asks one page sequence for its next page
MaxAsks == MaxPages + 1

\* The record of a query() call: its arguments, then the state of the
\* generator it returned. pc is "UserError" when the call raised (error tells
\* which raise), else the generator's position: "created" (not started),
\* "waiting" (inside _grpc_request), "suspended" (at the yield), "raised"
\* (ended by the Exception of a failed listing), "returned" (ended by break).
NewCall(ranks, filters, pc, error, request_data) ==
  [ranks |-> ranks, filters |-> filters, pc |-> pc, error |-> error,
   request_data |-> request_data,
   page |-> 0,         \* the generator's local page
   sent |-> <<>>,      \* the requests passed to _grpc_request, in order
   received |-> <<>>,  \* the responses _grpc_request returned, in order
   yielded |-> <<>>,   \* the responses yielded to the caller, in order
   asked |-> 0]        \* how many times the caller called next() on it

\* [resources_pb2.Rank(annotation=a) for a in protos], the same for Filter
Wrap(protos) == [i \in 1..Len(protos) |-> [annotation |-> protos[i]]]

\* A query() that validates ranks and leaves filters unvalidated.
query_ranks_only(s, ranks, filters) ==
  IF ~get_schema(ranks)
  THEN [call |-> NewCall(ranks, filters, "UserError", "schema", <<>>),
        data_proto |-> s.data_proto]
  ELSE LET r == AppendAnnots(ranks[2],
                  [protos |-> <<>>, data_proto |-> s.data_proto, raised |-> FALSE])
           f == AppendAnnots(filters[2],
                  [protos |-> <<>>, data_proto |-> r.data_proto, raised |-> r.raised])
           request_data ==
             [user_app_id |-> s.user_app_id,
              searches |-> <<[query |-> [ranks |-> Wrap(r.protos), filters |-> Wrap(f.protos)],
                              metric |-> s.metric_distance]>>,
              pagination |-> <<>>]
       IN IF f.raised
          THEN [call |-> NewCall(ranks, filters, "UserError", "unsupported_key", <<>>),
                data_proto |-> f.data_proto]
          ELSE [call |-> NewCall(ranks, filters, "created", "none", <<request_data>>),
                data_proto |-> f.data_proto]

\* A query() whose page sequence starts at once: its first request is sent
\* before query() returns.
query_eager(s, ranks, filters) ==
  IF ~(get_schema(ranks) /\ get_schema(filters))
  THEN [call |-> NewCall(ranks, filters, "UserError", "schema", <<>>),
        data_proto |-> s.data_proto]
  ELSE LET r == AppendAnnots(ranks[2],
                  [protos |-> <<>>, data_proto |-> s.data_proto, raised |-> FALSE])
           f == AppendAnnots(filters[2],
                  [protos |-> <<>>, data_proto |-> r.data_proto, raised |-> r.raised])
           request_data ==
             [user_app_id |-> s.user_app_id,
              searches |-> <<[query |-> [ranks |-> Wrap(r.protos), filters |-> Wrap(f.protos)],
                              metric |-> s.metric_distance]>>,
              pagination |-> <<[page |-> 1, per_page |-> s.default_page_size]>>]
       IN IF f.raised
          THEN [call |-> NewCall(ranks, filters, "UserError", "unsupported_key", <<>>),
                data_proto |-> f.data_proto]
          ELSE [call |-> [NewCall(ranks, filters, "waiting", "none", <<request_data>>)
                            EXCEPT !.page = 1, !.sent = <<request_data>>],
                data_proto |-> f.data_proto]

\* query(ranks, filters) on the session s: the call's record and the scratch
\* buffer the session is left with.
query(s, ranks, filters) ==
  IF ~(get_schema(ranks) /\ get_schema(filters))
  THEN [call |-> NewCall(ranks, filters, "UserError", "schema", <<>>),
        data_proto |-> s.data_proto]
  ELSE LET r == AppendAnnots(ranks[2],
                  [protos |-> <<>>, data_proto |-> s.data_proto, raised |-> FALSE])
           f == AppendAnnots(filters[2],
                  [protos |-> <<>>, data_proto |-> r.data_proto, raised |-> r.raised])
           request_data ==
             [user_app_id |-> s.user_app_id,
              searches |-> <<[query |-> [ranks |-> Wrap(r.protos), filters |-> Wrap(f.protos)],
                              metric |-> s.metric_distance]>>,
              pagination |-> <<>>]
       IN IF f.raised
          THEN [call |-> NewCall(ranks, filters, "UserError", "unsupported_key", <<>>),
                data_proto |-> f.data_proto]
          ELSE [call |-> NewCall(ranks, filters, "created", "none", <<request_data>>),
                data_proto |-> f.data_proto]

\* A generator that sets the page of the pagination only when it creates it.
SendRequest_stale_page(c, default_page_size) ==
  LET page == IF c.pc = "created" THEN 1 ELSE c.page
      pagination == IF c.pc = "created"
                    THEN [page |-> page, per_page |-> default_page_size]
                    ELSE c.request_data[1].pagination[1]
      request_data == [c.request_data[1] EXCEPT !.pagination = <<pagination>>]
  IN [c EXCEPT !.pc = "waiting", !.page = page,
               !.request_data = <<request_data>>,
               !.sent = Append(@, request_data)]

\* The generator runs from its start or from the yield up to _grpc_request:
\* on its first run page = 1 and request_data['pagination'] is created; then
\* request_data['pagination'].page = page and proto_message(**request_data)
\* is passed to _grpc_request.
SendRequest(c, default_page_size) ==
  LET page == IF c.pc = "created" THEN 1 ELSE c.page
      pagination == IF c.pc = "created"
                    THEN [page |-> page, per_page |-> default_page_size]
                    ELSE [c.request_data[1].pagination[1] EXCEPT !.page = page]
      request_data == [c.request_data[1] EXCEPT !.pagination = <<pagination>>]
  IN [c EXCEPT !.pc = "waiting", !.page = page,
               !.request_data = <<request_data>>,
               !.sent = Append(@, request_data)]

\* A generator that yields every successful response, hits or not.
HandleResponse_no_break(c, response) ==
  LET c1 == [c EXCEPT !.received = Append(@, response)]
  IN IF response.status # SUCCESS THEN [c1 EXCEPT !.pc = "raised"]
     ELSE [c1 EXCEPT !.page = @ + 1, !.yielded = Append(@, response), !.pc = "suspended"]

\* A generator that does not look at the status code.
HandleResponse_ignore_status(c, response) ==
  LET c1 == [c EXCEPT !.received = Append(@, response)]
  IN IF ~response.hits THEN [c1 EXCEPT !.pc = "returned"]
     ELSE [c1 EXCEPT !.page = @ + 1, !.yielded = Append(@, response), !.pc = "suspended"]

\* The generator runs from the return of _grpc_request to its next stop.
HandleResponse(c, response) ==
  LET c1 == [c EXCEPT !.received = Append(@, response)]
  IN IF response.status # SUCCESS THEN [c1 EXCEPT !.pc = "raised"]
     ELSE IF ~response.hits THEN [c1 EXCEPT !.pc = "returned"]
     ELSE [c1 EXCEPT !.page = @ + 1, !.yielded = Append(@, response), !.pc = "suspended"]

\* The caller calls query(a[1], a[2]).
Query(a) ==
  /\ inflight = 0
  /\ Len(calls) < MaxQueries
  /\ LET q == query(self, a[1], a[2])
     IN /\ calls' = Append(calls, q.call)
        /\ self' = [self EXCEPT !.data_proto = q.data_proto]
  /\ UNCHANGED <<inputs, inflight>>

\* The caller calls next() on the live generator of call i, which runs up to
\* its request.
Resume(i) ==
  /\ inflight = 0
  /\ calls[i].pc \in {"created", "suspended"}
  /\ Len(calls[i].sent) < MaxPages
  /\ calls[i].asked < MaxAsks
  /\ calls' = [calls EXCEPT ![i] =
                 [SendRequest(@, self.default_page_size) EXCEPT !.asked = @ + 1]]
  /\ inflight' = i
  /\ UNCHANGED <<inputs, self>>

\* _grpc_request returns a response to the generator of call i: n is the
\* position of the request it answers.
Respond(i, status, hits) ==
  /\ inflight = i
  /\ i # 0
  /\ calls' = [calls EXCEPT ![i] =
                 HandleResponse(@, [n |-> Len(@.sent), status |-> status, hits |-> hits])]
  /\ inflight' = 0
  /\ UNCHANGED <<inputs, self>>

\* The caller calls next() on the finished generator of call i: StopIteration.
NextFinished(i) ==
  /\ inflight = 0
  /\ calls[i].pc \in {"raised", "returned"}
  /\ calls[i].asked < MaxAsks
  /\ calls' = [calls EXCEPT ![i].asked = @ + 1]
  /\ UNCHANGED <<inputs, self, inflight>>

----------------------------------------------------------------------------
(* The arguments the caller draws from *)

\* the longest concept name drawn
MaxNameLen == 3
\* the longest concepts list drawn
MaxConcepts == 2
\* the longest rank/filter list drawn from ItemPool
MaxItems == 2

SeqsUpTo(S, n) == UNION {[1..k -> S] : k \in 0..n}

\* a dict with the single item key: value
Item(key, value) == PyDict(<<<<key, value>>>>)
\* the dict whose keys are those order[i] with f[i] # Absent, in that order
Absent == <<"absent">>
DictOf(order, f) ==
  PyDict(SelectSeq([i \in 1..Len(order) |-> <<order[i], f[i]>>], LAMBDA kv : kv[2] # Absent))

\* [{}], the default of ranks and of filters
Default == PyList(<<PyDict(<<>>)>>)

Url == PyStr(<<"h", "t", "t", "p", "s", ":", "/", "/", "x">>)
PlainUrl == PyStr(<<"h", "t", "t", "p", ":", "/", "/">>)
FtpUrl == PyStr(<<"f", "t", "p", ":", "/", "/", "x">>)
Png == PyBytes(<<"P", "N", "G">>)
Text == PyStr(<<"h", "i">>)
Meta == PyDict(<<<<"k", PyStr(<<"v">>)>>>>)
Dog == PyDict(<<<<"name", PyStr(<<"d", "o", "g">>)>>, <<"value", PyInt(1)>>>>)
Deer == PyDict(<<<<"name", PyStr(<<"d", "e", "e", "r">>)>>, <<"value", PyInt(1)>>>>)
Deer2 == PyDict(<<<<"name", PyStr(<<"d", "e", "e", "r">>)>>, <<"value", PyInt(2)>>>>)
DeerId == PyDict(<<<<"value", PyInt(1)>>, <<"concept_id", PyStr(<<"d", "e", "e", "r">>)>>>>)
Geo == PyDict(<<<<"longitude", PyFloat(-29)>>, <<"latitude", PyFloat(40)>>,
                <<"geo_limit", PyInt(10)>>>>)
GeoExtra == PyDict(<<<<"longitude", PyFloat(-29)>>, <<"latitude", PyFloat(40)>>,
                     <<"geo_limit", PyInt(10)>>, <<"extra", PyInt(1)>>>>)

\* concept names: every string over NameAlphabet up to MaxNameLen characters
NameAlphabet == {"a", "7", "-", "_", "\n", "!"}
Names == SeqsUpTo(NameAlphabet, MaxNameLen)
NameArgs ==
  {PyList(<<Item("concepts", PyList(<<Item("name", PyStr(n))>>))>>) : n \in Names}
    \cup {PyList(<<Item("concepts", PyList(<<Item("name", PyInt(7))>>))>>)}

\* concepts lists: every list over ConceptPool up to MaxConcepts elements
ConceptPool ==
  {PyDict(<<>>), Item("value", PyInt(0)), Item("value", PyInt(1)), Item("value", PyInt(2)),
   Item("value", PyFloat(1)), Item("value", PyStr(<<"1">>)),
   Item("id", PyStr(<<"x">>)), Item("id", PyStr(<<>>)),
   Item("language", PyStr(<<"e", "n">>)), Item("language", PyInt(1)),
   Item("name", PyStr(<<"d", "o", "g">>)), Item("concept_id", PyStr(<<"x">>)),
   Dog, Deer2, DeerId, PyStr(<<"d", "o", "g">>)}
ConceptArgs ==
  {PyList(<<Item("concepts", PyList(cs))>>) : cs \in SeqsUpTo(ConceptPool, MaxConcepts)}
    \cup {PyList(<<Item("concepts", Dog)>>)}

\* geo_point values: every dict with keys among GeoKeyOrder and values among GeoValues
GeoKeyOrder == <<"longitude", "latitude", "geo_limit", "extra">>
GeoValues == {PyFloat(-29), PyInt(10), PyStr(<<"4", "0">>)}
GeoArgs ==
  {PyList(<<Item("geo_point", DictOf(GeoKeyOrder, f))>>) :
     f \in [1..Len(GeoKeyOrder) -> GeoValues \cup {Absent}]}
    \cup {PyList(<<Item("geo_point", PyList(<<PyFloat(-29), PyFloat(40), PyInt(10)>>))>>)}

\* items: every dict with keys among ItemKeyOrder, each key with a value
\* that conforms to its rule or one that does not
ItemKeyOrder ==
  <<"image_url", "image_bytes", "text_raw", "metadata", "geo_point", "concepts", "input_id">>
Conforming == <<Url, Png, Text, Meta, Geo, PyList(<<Dog>>), Text>>
Violating == <<FtpUrl, Text, PyStr(<<>>), Text, GeoExtra, PyList(<<Deer2>>), PyInt(1)>>
ItemChoices ==
  {[i \in 1..Len(ItemKeyOrder) |->
      IF c[i] = "conforming" THEN Conforming[i]
      ELSE IF c[i] = "violating" THEN Violating[i] ELSE Absent] :
     c \in [1..Len(ItemKeyOrder) -> {"absent", "conforming", "violating"}]}
Items == {DictOf(ItemKeyOrder, f) : f \in ItemChoices}
ItemPool ==
  {PyDict(<<>>), Item("text_raw", Text), Item("geo_point", Geo), Item("image_url", PlainUrl),
   Item("input_id", Text), Item("concepts", PyList(<<Deer2>>)), Text}
ItemArgs ==
  {PyList(<<it>>) : it \in Items}
    \cup {PyList(its) : its \in SeqsUpTo(ItemPool, MaxItems)}
    \cup {PyDict(<<>>), Text}

\* the validator's candidates, each passed as ranks and as filters
ValidatorArgs == NameArgs \cup ConceptArgs \cup GeoArgs \cup ItemArgs
ValidatorInputs ==
  {<<a, Default>> : a \in ValidatorArgs} \cup {<<Default, a>> : a \in ValidatorArgs}

\* the arguments of the session's calls
RankPool ==
  {Default,
   PyList(<<PyDict(<<<<"image_url", Url>>, <<"image_bytes", Png>>,
                     <<"concepts", PyList(<<Dog>>)>>>>),
            PyDict(<<>>),
            Item("text_raw", Text)>>),
   PyList(<<Item("concepts", PyList(<<Deer2, Dog>>))>>)}
FilterPool ==
  {Default,
   PyList(<<PyDict(<<<<"geo_point", Geo>>, <<"image_bytes", Png>>, <<"image_url", Url>>>>),
            PyDict(<<<<"metadata", Meta>>, <<"concepts", PyList(<<Deer, Dog>>)>>>>)>>),
   PyList(<<Item("geo_point", GeoExtra)>>)}
SessionInputs == RankPool \X FilterPool

----------------------------------------------------------------------------
(* Search.__init__ and the specifications *)

\* Search(user_id, app_id, top_k, metric) for the two metrics __init__ accepts
Search(user_id, app_id, top_k, metric) ==
  [user_app_id |-> [user_id |-> user_id, app_id |-> app_id],
   metric_distance |-> IF metric = "cosine" THEN "COSINE_DISTANCE" ELSE "EUCLIDEAN_DISTANCE",
   data_proto |-> EmptyData,
   default_page_size |-> top_k]

\* the sessions drawn: top_k = 1 with euclidean (the tests' session) and the
\* defaults' top_k = 10 with cosine
Sessions == {Search("user", "app", 1, "euclidean"), Search("user", "app", 10, "cosine")}

Init ==
  /\ inputs = SessionInputs
  /\ self \in Sessions
  /\ calls = <<>>
  /\ inflight = 0

Next ==
  \/ \E a \in inputs : Query(a)
  \/ \E i \in 1..Len(calls) : Resume(i)
  \/ \E i \in 1..Len(calls), status \in StatusCodes, hits \in BOOLEAN : Respond(i, status, hits)
  \/ \E i \in 1..Len(calls) : NextFinished(i)

Spec == Init /\ [][Next]_vars

\* One candidate pair per behaviour, drawn from the validator's candidates;
\* only query() is called.
InitValidate ==
  /\ inputs \in {{a} : a \in ValidatorInputs}
  /\ self = Search("user", "app", 10, "cosine")
  /\ calls = <<>>
  /\ inflight = 0

NextValidate == \E a \in inputs : Query(a)

SpecValidate == InitValidate /\ [][NextValidate]_vars

----------------------------------------------------------------------------
(* Properties of query() and of the page sequence, under Spec *)

Call(i) == calls[i]
CallIds == 1..Len(calls)

\* x is not a list of items the rank/filter schema accepts
ViolatesSchema(x) == ~get_schema(x)

\* C1: a query() call whose ranks or filters violate the rank/filter schema
\* fails with UserError, and no request is ever sent for it: it has no page
\* sequence, no request of it is recorded or in flight.
C1_InvalidArgsRaiseBeforeAnyRequest ==
  \A i \in CallIds :
    ViolatesSchema(Call(i).ranks) \/ ViolatesSchema(Call(i).filters) =>
      /\ Call(i).pc = "UserError"
      /\ Call(i).error = "schema"
      /\ Call(i).sent = <<>>
      /\ Call(i).asked = 0
      /\ inflight # i

\* the tests' call with an extra key in geo_point has raised
C1_Witness ==
  \E i \in CallIds :
    /\ Call(i).filters = PyList(<<Item("geo_point", GeoExtra)>>)
    /\ ~ViolatesSchema(Call(i).ranks)
    /\ Call(i).pc = "UserError"

\* the responses 1..k of c are successful and the k-th is the first without hits
FirstWithoutHits(c, k) ==
  /\ k \in 1..Len(c.received)
  /\ \A j \in 1..k : c.received[j].status = SUCCESS
  /\ \A j \in 1..(k - 1) : c.received[j].hits
  /\ ~c.received[k].hits

\* C2: when the k-th response of a page sequence is the first one without a
\* hits field, all responses up to it being successful, the sequence has ended,
\* it yielded exactly the responses 1..k-1 in order, and exactly k requests
\* were issued, however often the caller asks again.
C2_StopsAtFirstResponseWithoutHits ==
  \A i \in CallIds : \A k \in 1..Len(Call(i).received) :
    FirstWithoutHits(Call(i), k) =>
      /\ Call(i).pc = "returned"
      /\ Len(Call(i).sent) = k
      /\ Len(Call(i).received) = k
      /\ Call(i).yielded = SubSeq(Call(i).received, 1, k - 1)

\* hits on pages 1 and 2, none on page 3: 2 pages yielded, 3 requests made,
\* and the caller has asked a fourth time
C2_Witness ==
  \E i \in CallIds :
    /\ FirstWithoutHits(Call(i), 3)
    /\ Len(Call(i).yielded) = 2
    /\ Len(Call(i).sent) = 3
    /\ Call(i).asked = 4

\* C4: when the n-th response of a page sequence has a status code other than
\* success, the sequence has ended with the error: that response is not
\* yielded, the responses 1..n-1 are the pages yielded, and the n requests
\* issued up to then are all the requests it ever issues, however often the
\* caller asks again.
C4_FailedPageAbortsSequence ==
  \A i \in CallIds : \A n \in 1..Len(Call(i).received) :
    Call(i).received[n].status # SUCCESS =>
      /\ Call(i).pc = "raised"
      /\ Len(Call(i).sent) = n
      /\ Len(Call(i).received) = n
      /\ Call(i).yielded = SubSeq(Call(i).received, 1, n - 1)
      /\ inflight # i

\* the second page request failed, one page was yielded before it, and the
\* caller has asked again after the failure
C4_Witness ==
  \E i \in CallIds :
    /\ Len(Call(i).received) = 2
    /\ Call(i).received[2].status # SUCCESS
    /\ Call(i).received[2].hits
    /\ Len(Call(i).yielded) = 1
    /\ Call(i).asked > 2
    /\ Call(i).pc = "raised"

\* What the annotation of one item holds, read off the item: no data for the
\* empty item; else the image of the last of image_url and image_bytes, the
\* concepts in order, the text, the metadata and the geo descriptor, each
\* present exactly when the item has its key.
Positions(item, keys) == {j \in 1..Len(item[2]) : item[2][j][1] \in keys}
Last(S) == CHOOSE j \in S : \A h \in S : h <= j
ExpectedImage(item) ==
  LET S == Positions(item, {"image_url", "image_bytes"})
  IN IF S = {} THEN <<>>
     ELSE <<<<IF item[2][Last(S)][1] = "image_url" THEN "url" ELSE "base64",
              item[2][Last(S)][2][2]>>>>
ExpectedConcept(c) ==
  [f \in {"id", "name", "language", "value"} |->
     IF f \in Keys(c) THEN Get(c, f)[2] ELSE IF f = "value" THEN 0 ELSE <<>>]
ExpectedConcepts(item) ==
  IF "concepts" \notin Keys(item) THEN <<>>
  ELSE [j \in 1..PyLen(Get(item, "concepts")) |-> ExpectedConcept(Get(item, "concepts")[2][j])]
ExpectedGeo(item) ==
  IF "geo_point" \notin Keys(item) THEN <<>>
  ELSE LET g == Get(item, "geo_point")
       IN <<[geo_point |-> [longitude |-> Get(g, "longitude")[2],
                            latitude |-> Get(g, "latitude")[2]],
             geo_limit |-> [type |-> "withinKilometers", value |-> Get(g, "geo_limit")[2]]]>>
ExpectedAnnot(item) ==
  IF Keys(item) = {} THEN [data |-> <<>>]
  ELSE [data |-> <<[image |-> ExpectedImage(item),
                    concepts |-> ExpectedConcepts(item),
                    text |-> IF "text_raw" \in Keys(item)
                             THEN <<<<"raw", Get(item, "text_raw")[2]>>>> ELSE <<>>,
                    metadata |-> IF "metadata" \in Keys(item)
                                 THEN <<Get(item, "metadata")[2]>> ELSE <<>>,
                    geo |-> ExpectedGeo(item)]>>]
ExpectedAnnots(x) == [j \in 1..PyLen(x) |-> [annotation |-> ExpectedAnnot(x[2][j])]]

\* the search specification of the call c, as fixed by its arguments and the session
ExpectedSearches(c) ==
  <<[query |-> [ranks |-> ExpectedAnnots(c.ranks), filters |-> ExpectedAnnots(c.filters)],
     metric |-> self.metric_distance]>>

\* C3: the n-th request of a page sequence carries page number n, and every
\* request carries the session's top_k as page size, the session's user/app
\* scope, and the rank/filter search specification and metric of the query()
\* call that made the sequence.
C3_OnlyThePageNumberChanges ==
  \A i \in CallIds : \A n \in 1..Len(Call(i).sent) :
    LET request == Call(i).sent[n]
    IN /\ Len(request.pagination) = 1
       /\ request.pagination[1].page = n
       /\ request.pagination[1].per_page = self.default_page_size
       /\ request.user_app_id = self.user_app_id
       /\ request.searches = ExpectedSearches(Call(i))

\* three requests were issued by one page sequence
C3_Witness ==
  \E i \in CallIds :
    /\ Len(Call(i).sent) = 3
    /\ Call(i).sent[3].pagination[1].page = 3
    /\ Call(i).ranks # Default

\* C10: a query() call that returned has built one annotation per rank item
\* and one per filter item, in input order, each equal to the annotation of
\* its item alone: empty for the empty item, and holding nothing of the items
\* built before or after it.
C10_AnnotationsAreSnapshotsOfTheirItems ==
  \A i \in CallIds :
    Call(i).pc # "UserError" =>
      LET q == Call(i).request_data[1].searches[1].query
      IN /\ Len(q.ranks) = PyLen(Call(i).ranks)
         /\ Len(q.filters) = PyLen(Call(i).filters)
         /\ \A j \in 1..Len(q.ranks) : q.ranks[j].annotation = ExpectedAnnot(Call(i).ranks[2][j])
         /\ \A j \in 1..Len(q.filters) :
              q.filters[j].annotation = ExpectedAnnot(Call(i).filters[2][j])

\* a call whose ranks have an empty item between two items with data, and
\* whose filters have two items with data, has been built
C10_Witness ==
  \E i \in CallIds :
    /\ Call(i).pc = "created"
    /\ PyLen(Call(i).ranks) = 3
    /\ Keys(Call(i).ranks[2][1]) # {}
    /\ Keys(Call(i).ranks[2][2]) = {}
    /\ Call(i).request_data[1].searches[1].query.ranks[2].annotation = [data |-> <<>>]
    /\ PyLen(Call(i).filters) = 2
    /\ Keys(Call(i).filters[2][1]) # {}

----------------------------------------------------------------------------
(* Properties of validation, under SpecValidate *)

Validated(c) == c.pc # "UserError"
\* the two lists of the call c, and the one that goes with each
Sides(c) == {<<c.ranks, c.filters>>, <<c.filters, c.ranks>>}
\* the dict items of the list x
DictItems(x) ==
  IF IsInstance(x, "list") THEN {x[2][j] : j \in {h \in 1..Len(x[2]) : IsInstance(x[2][h], "dict")}}
  ELSE {}

\* a name made of non-empty alphanumeric segments joined by single separators
WellFormedName(s) ==
  /\ Len(s) > 0
  /\ \A j \in 1..Len(s) : s[j] \in Alnum \cup Separator
  /\ s[1] \notin Separator
  /\ s[Len(s)] \notin Separator
  /\ \A j \in 1..(Len(s) - 1) : ~(s[j] \in Separator /\ s[j + 1] \in Separator)

\* a geo_point with exactly longitude (float), latitude (float), geo_limit (integer)
GeoExact(g) ==
  /\ IsInstance(g, "dict")
  /\ Keys(g) = {"longitude", "latitude", "geo_limit"}
  /\ IsInstance(Get(g, "longitude"), "float")
  /\ IsInstance(Get(g, "latitude"), "float")
  /\ IsInstance(Get(g, "geo_limit"), "int")

\* a ConceptSpec: a non-empty object of name, id, language, value
IsConceptSpec(e) ==
  /\ IsInstance(e, "dict")
  /\ PyLen(e) > 0
  /\ Keys(e) \subseteq {"name", "id", "language", "value"}
  /\ "name" \in Keys(e) => IsInstance(Get(e, "name"), "str") /\ WellFormedName(Get(e, "name")[2])
  /\ "id" \in Keys(e) => IsInstance(Get(e, "id"), "str") /\ PyLen(Get(e, "id")) > 0
  /\ "language" \in Keys(e) =>
       IsInstance(Get(e, "language"), "str") /\ PyLen(Get(e, "language")) > 0
  /\ "value" \in Keys(e) => Get(e, "value") \in {PyInt(0), PyInt(1)}

StartsWith(s, prefix) == Len(s) >= Len(prefix) /\ SubSeq(s, 1, Len(prefix)) = prefix

RecognizedKeys == {"image_url", "image_bytes", "text_raw", "metadata", "geo_point", "concepts"}

\* the per-key rule of a recognized key
Conforms(k, v) ==
  CASE k = "image_url" ->
         /\ IsInstance(v, "str")
         /\ \/ StartsWith(v[2], <<"h", "t", "t", "p", ":", "/", "/">>)
            \/ StartsWith(v[2], <<"h", "t", "t", "p", "s", ":", "/", "/">>)
    [] k = "text_raw" -> IsInstance(v, "str") /\ v[2] # <<>>
    [] k = "metadata" -> IsInstance(v, "dict")
    [] k = "image_bytes" -> IsInstance(v, "bytes")
    [] k = "geo_point" -> GeoExact(v)
    [] k = "concepts" ->
         IsInstance(v, "list") /\ v[2] # <<>> /\ \A j \in 1..Len(v[2]) : IsConceptSpec(v[2][j])

ConformingList(x) ==
  /\ IsInstance(x, "list")
  /\ \A j \in 1..Len(x[2]) :
       /\ IsInstance(x[2][j], "dict")
       /\ Keys(x[2][j]) \subseteq RecognizedKeys
       /\ \A k \in Keys(x[2][j]) : Conforms(k, Get(x[2][j], k))

\* C5: validation succeeds when ranks and filters are lists of maps whose keys
\* are all recognized and whose values conform to the per-key rules, and fails
\* when a list contains an item with an unrecognized top-level key.
C5_RecognizedKeysPassUnknownKeysFail ==
  \A i \in CallIds :
    /\ ConformingList(Call(i).ranks) /\ ConformingList(Call(i).filters) => Validated(Call(i))
    /\ (\E s \in Sides(Call(i)) : \E item \in DictItems(s[1]) : ~(Keys(item) \subseteq RecognizedKeys))
         => Call(i).pc = "UserError" /\ Call(i).error = "schema"

\* an item with all six recognized keys, each conforming, has passed
C5_Witness ==
  \E i \in CallIds :
    /\ Validated(Call(i))
    /\ PyLen(Call(i).filters) = 1
    /\ Keys(Call(i).filters[2][1]) = RecognizedKeys
    /\ ConformingList(Call(i).filters)

\* C6: an item with a geo_point that is not exactly longitude (float),
\* latitude (float) and geo_limit (integer) fails validation, and the list of
\* the one item whose only key is such a geo_point passes.
C6_GeoPointExactlyThreeTypedKeys ==
  \A i \in CallIds : \A s \in Sides(Call(i)) :
    /\ (\E item \in DictItems(s[1]) :
          "geo_point" \in Keys(item) /\ ~GeoExact(Get(item, "geo_point")))
         => Call(i).pc = "UserError" /\ Call(i).error = "schema"
    /\ (\E item \in DictItems(s[1]) :
          /\ s[1] = PyList(<<item>>)
          /\ Keys(item) = {"geo_point"}
          /\ GeoExact(Get(item, "geo_point"))
          /\ s[2] = Default)
         => Validated(Call(i))

\* a geo_point with the three keys and an integer longitude has failed
C6_Witness ==
  \E i \in CallIds :
    /\ Call(i).pc = "UserError"
    /\ Call(i).ranks = Default
    /\ Call(i).filters =
         PyList(<<Item("geo_point",
                       PyDict(<<<<"longitude", PyInt(10)>>, <<"latitude", PyFloat(-29)>>,
                                <<"geo_limit", PyInt(10)>>>>))>>)

\* an element that is an empty object, has a key other than name, id,
\* language, value, or has a value that is not the integer 0 or 1
BadConcept(e) ==
  /\ IsInstance(e, "dict")
  /\ \/ PyLen(e) = 0
     \/ ~(Keys(e) \subseteq {"name", "id", "language", "value"})
     \/ "value" \in Keys(e) /\ Get(e, "value") \notin {PyInt(0), PyInt(1)}

\* C7: an item whose concepts list has one such element fails validation and
\* query() raises UserError, whatever the other elements are; the list of the
\* one element that has only value 0 or value 1 passes.
C7_OneBadConceptFailsTheList ==
  \A i \in CallIds : \A s \in Sides(Call(i)) :
    /\ (\E item \in DictItems(s[1]) :
          /\ "concepts" \in Keys(item)
          /\ IsInstance(Get(item, "concepts"), "list")
          /\ \E j \in 1..PyLen(Get(item, "concepts")) : BadConcept(Get(item, "concepts")[2][j]))
         => Call(i).pc = "UserError" /\ Call(i).error = "schema"
    /\ (\E v \in {0, 1} :
          /\ s[1] = PyList(<<Item("concepts", PyList(<<Item("value", PyInt(v))>>))>>)
          /\ s[2] = Default)
         => Validated(Call(i))

\* the tests' list of a concept with value 2 followed by a valid one has failed
C7_Witness ==
  \E i \in CallIds :
    /\ Call(i).filters = PyList(<<Item("concepts", PyList(<<Deer2, Dog>>))>>)
    /\ Call(i).ranks = Default
    /\ Call(i).pc = "UserError"

\* the dict items of the call c that have an empty concepts list
EmptyConceptsItems(c) ==
  {item \in DictItems(c.ranks) \cup DictItems(c.filters) :
     "concepts" \in Keys(item) /\ Get(item, "concepts") = PyList(<<>>)}

C9_NamePassesIffWellFormed ==
  \A i \in CallIds : \A s \in Sides(Call(i)) : \A n \in Names :
    s[1] = PyList(<<Item("concepts", PyList(<<Item("name", PyStr(n))>>))>>) /\ s[2] = Default
      => (Validated(Call(i)) <=> WellFormedName(n))

----------------------------------------------------------------------------
(* Laziness of the page sequence, under Spec *)

\* the requests of the call c that have no response yet
InFlight(c) == Len(c.sent) - Len(c.received)

\* C11: a call has issued at most as many requests as the caller has asked it
\* for pages, none when query() has just returned; a request of a call is
\* either answered or the one request in flight, and at most one call has a
\* request in flight.
C11_RequestsFollowTheCallersAsks ==
  /\ \A i \in CallIds :
       /\ Len(Call(i).sent) <= Call(i).asked
       /\ Call(i).pc = "created" => Call(i).sent = <<>>
       /\ InFlight(Call(i)) \in {0, 1}
  /\ Cardinality({i \in CallIds : InFlight(Call(i)) = 1}) <= 1

\* the caller has asked for the second page and its request is in flight
C11_Witness ==
  \E i \in CallIds :
    /\ Call(i).asked = 2
    /\ Len(Call(i).sent) = 2
    /\ InFlight(Call(i)) = 1
    /\ Len(Call(i).yielded) = 1

----------------------------------------------------------------------------
(* The builder's guard, under SpecValidate *)

\* C12: no query() call raises the builder's unsupported-key error, and a call
\* whose ranks and filters pass validation returns its page sequence, with one
\* annotation built per item.
C12_UnsupportedKeyUnreachable ==
  \A i \in CallIds :
    /\ Call(i).error # "unsupported_key"
    /\ ~ViolatesSchema(Call(i).ranks) /\ ~ViolatesSchema(Call(i).filters) =>
         /\ Call(i).pc = "created"
         /\ Len(Call(i).request_data[1].searches[1].query.ranks) = PyLen(Call(i).ranks)
         /\ Len(Call(i).request_data[1].searches[1].query.filters) = PyLen(Call(i).filters)

\* the rank item with all six keys the validator accepts has been built, and
\* its annotation holds an image, a concept, a text, metadata and a geo
C12_Witness ==
  \E i \in CallIds :
    /\ Call(i).pc = "created"
    /\ PyLen(Call(i).ranks) = 1
    /\ Keys(Call(i).ranks[2][1]) = ItemKeys
    /\ LET data == Call(i).request_data[1].searches[1].query.ranks[1].annotation.data[1]
       IN /\ Len(data.image) = 1
          /\ Len(data.concepts) = 1
          /\ Len(data.text) = 1
          /\ Len(data.metadata) = 1
          /\ Len(data.geo) = 1

====
